---- MODULE Spec2Model ----
(***************************************************************************)
(* Model of gatekeeper.py: the Streamlit script whose main() probes the    *)
(* server, then exposes either the Wake action or one shutdown strategy.  *)
(* Streamlit evaluates main() once per interaction of each browser        *)
(* session, every session in a thread of the same process; a session is   *)
(* one instance of the per-run state below.                               *)
(***************************************************************************)
EXTENDS Integers, FiniteSets, Sequences, TLC

\* ------------------------------------------------------------------ bounds
NumSessions == 2
Sessions == 1..NumSessions

\* ------------------------------------------------- Python exception classes
\* The builtin / library class hierarchy the except clauses are matched on.
Parent ==
  [ Exception              |-> "BaseException",
    OSError                |-> "Exception",
    ValueError             |-> "Exception",
    RuntimeError           |-> "Exception",
    SubprocessError        |-> "Exception",
    socket_timeout         |-> "OSError",
    ConnectionError        |-> "OSError",
    ConnectionRefusedError |-> "ConnectionError",
    gaierror               |-> "OSError",
    FileNotFoundError      |-> "OSError",
    PermissionError        |-> "OSError",
    CalledProcessError     |-> "SubprocessError",
    TimeoutExpired         |-> "SubprocessError",
    UnicodeDecodeError     |-> "ValueError",
    RequestException       |-> "OSError",
    RequestsConnectionError |-> "RequestException",
    SSLError               |-> "RequestsConnectionError",
    RequestsTimeout        |-> "RequestException" ]

RECURSIVE IsSubclass(_, _)
IsSubclass(c, d) ==
  \/ c = d
  \/ c \in DOMAIN Parent /\ IsSubclass(Parent[c], d)

\* `except (d1, d2, ...)` catches exc iff exc is an instance of one of them.
Caught(exc, classes) == \E d \in classes : IsSubclass(exc, d)

\* ------------------------------------------------------ is_server_up (probe)
ProbeOutcomes ==
  {"established", "refused", "timeout", "host_unreachable", "no_route", "dns_failure"}

\* What create_connection raises for each network outcome.
ProbeRaises ==
  [ established      |-> "none",
    refused          |-> "ConnectionRefusedError",
    timeout          |-> "socket_timeout",
    host_unreachable |-> "OSError",
    no_route         |-> "OSError",
    dns_failure      |-> "gaierror" ]

ProbeExcept_narrow == {"socket_timeout", "ConnectionRefusedError"}

ProbeExcept == {"socket_timeout", "ConnectionRefusedError", "OSError"}

is_server_up(outcome) ==
  IF ProbeRaises[outcome] = "none"
    THEN [ret |-> "True", escaped |-> "none"]
    ELSE IF Caught(ProbeRaises[outcome], ProbeExcept)
      THEN [ret |-> "False", escaped |-> "none"]
      ELSE [ret |-> "none", escaped |-> ProbeRaises[outcome]]

\* ------------------------------------------------------------ wake_server
MacInputs == {"6-octet", "5-octet", "non-hex", "empty"}

\* send_magic_packet as wake_server documents it: the MAC is parsed first and
\* a string that is not a 6-octet MAC raises ValueError; only then is the
\* packet handed to the socket, whose failure raises RuntimeError.
send_magic_packet(mac, sendOk) ==
  IF mac # "6-octet"
    THEN [exc |-> "ValueError", attempts |-> 0, sent |-> 0]
    ELSE IF sendOk
      THEN [exc |-> "none", attempts |-> 1, sent |-> 1]
      ELSE [exc |-> "RuntimeError", attempts |-> 1, sent |-> 0]

wake_server_wrapping(mac, sendOk) ==
  LET r == send_magic_packet(mac, sendOk) IN
  [r EXCEPT !.exc = IF @ = "none" THEN "none" ELSE "RuntimeError"]

wake_server(mac, sendOk) == send_magic_packet(mac, sendOk)

NoWake == [exc |-> "unset", attempts |-> 0, sent |-> 0]

\* --------------------------------------------- shutdown_proxmox_with_token
Statuses == {200, 201, 401, 500}

\* What requests.post raises for each transport failure.
PostRaises ==
  [ dns     |-> "RequestsConnectionError",
    refused |-> "RequestsConnectionError",
    tls     |-> "SSLError",
    timeout |-> "RequestsTimeout" ]

HttpOutcomes ==
  {[status |-> c, fault |-> "none"] : c \in Statuses}
    \cup {[status |-> 0, fault |-> f] : f \in DOMAIN PostRaises}

NoHttp == [status |-> -1, fault |-> "none"]
NoDiag == [text |-> "none", code |-> -1, info |-> "none"]

ApiExcept == {"Exception"}

shutdown_proxmox_with_token_any2xx(o) ==
  IF o.fault = "none"
    THEN IF o.status >= 200 /\ o.status < 300
      THEN [ret |-> "True", diag |-> NoDiag, escaped |-> "none"]
      ELSE [ret |-> "False", escaped |-> "none",
            diag |-> [text |-> "Shutdown failed", code |-> o.status, info |-> "response.text"]]
    ELSE [ret |-> "False", escaped |-> "none",
          diag |-> [text |-> "Error contacting Proxmox API", code |-> -1,
                    info |-> PostRaises[o.fault]]]

shutdown_proxmox_with_token(o) ==
  IF o.fault = "none"
    THEN IF o.status = 200
      THEN [ret |-> "True", diag |-> NoDiag, escaped |-> "none"]
      ELSE [ret |-> "False", escaped |-> "none",
            diag |-> [text |-> "Shutdown failed", code |-> o.status, info |-> "response.text"]]
    ELSE IF Caught(PostRaises[o.fault], ApiExcept)
      THEN [ret |-> "False", escaped |-> "none",
            diag |-> [text |-> "Error contacting Proxmox API", code |-> -1,
                      info |-> PostRaises[o.fault]]]
      ELSE [ret |-> "none", diag |-> NoDiag, escaped |-> PostRaises[o.fault]]

\* ------------------------------------------------- shutdown_linux_with_ssh
ReturnCodes == {0, 1, 255}

\* What subprocess.run raises when the ssh process does not run to an exit.
RunRaises ==
  [ missing_client |-> "FileNotFoundError",
    timeout        |-> "TimeoutExpired",
    not_executable |-> "PermissionError",
    bad_argument   |-> "ValueError" ]

ProcOutcomes ==
  {[returncode |-> c, fault |-> "none"] : c \in ReturnCodes}
    \cup {[returncode |-> -1, fault |-> f] : f \in DOMAIN RunRaises}

NoProc == [returncode |-> -2, fault |-> "none"]

SshHandlers_noCatchAll ==
  << [class |-> "FileNotFoundError",  text |-> "SSH command not found", interpolates |-> FALSE],
     [class |-> "CalledProcessError", text |-> "SSH command failed",    interpolates |-> TRUE],
     [class |-> "socket_timeout",     text |-> "Connection timed out.", interpolates |-> FALSE] >>

\* The except clauses of shutdown_linux_with_ssh, in source order.
SshHandlers ==
  << [class |-> "FileNotFoundError",  text |-> "SSH command not found", interpolates |-> FALSE],
     [class |-> "CalledProcessError", text |-> "SSH command failed",    interpolates |-> TRUE],
     [class |-> "socket_timeout",     text |-> "Connection timed out.", interpolates |-> FALSE],
     [class |-> "Exception",          text |-> "Unexpected error",      interpolates |-> TRUE] >>

\* Index of the first except clause that matches exc, 0 when none does.
RECURSIVE FirstHandler(_, _, _)
FirstHandler(exc, handlers, i) ==
  IF i > Len(handlers) THEN 0
  ELSE IF IsSubclass(exc, handlers[i].class) THEN i
  ELSE FirstHandler(exc, handlers, i + 1)

shutdown_linux_with_ssh(o) ==
  IF o.fault = "none"
    THEN IF o.returncode = 0
      THEN [ret |-> "True", diag |-> NoDiag, escaped |-> "none"]
      ELSE [ret |-> "False", escaped |-> "none",
            diag |-> [text |-> "SSH error", code |-> o.returncode, info |-> "result.stderr"]]
    ELSE LET h == FirstHandler(RunRaises[o.fault], SshHandlers, 1) IN
      IF h = 0
        THEN [ret |-> "none", diag |-> NoDiag, escaped |-> RunRaises[o.fault]]
        ELSE [ret |-> "False", escaped |-> "none",
              diag |-> [text |-> SshHandlers[h].text, code |-> -1,
                        info |-> IF SshHandlers[h].interpolates
                                  THEN RunRaises[o.fault] ELSE "none"]]

\* ------------------------------------------------------------ main() branch
\* Lines 229-237: which render path main() takes after the probe.
main_branch_swapped(isUp, isProxmox) ==
  IF isUp = "True" THEN (IF isProxmox THEN "ssh" ELSE "api") ELSE "wake"

main_branch(isUp, isProxmox) ==
  IF isUp = "True" THEN (IF isProxmox THEN "api" ELSE "ssh") ELSE "wake"

\* ------------------------------------------------------ widgets and key file
\* file_uploader returns None or an UploadedFile (a BytesIO, always truthy).
KeyUploads == {"None", "zero_bytes", "private_key", "garbage_text", "not_utf8"}
Truthy_always(upload) == TRUE

Truthy(upload) == upload # "None"

\* text_input returns a string; the empty string is the only falsy one.
TextInputs == {"", "x"}
all(fields) == \A i \in DOMAIN fields : fields[i] # ""

NoCreds == [node_name |-> "", token_id |-> "", token_secret |-> "", ssh_key_file |-> "None"]

\* The NamedTemporaryFile of render_generic_shutdown_ui.
NoFile == [created |-> FALSE, exists |-> FALSE, written |-> FALSE, chmod0600 |-> FALSE, uses |-> 0]

NamedTemporaryFile_exit_keep(f) == f

\* Leaving the `with NamedTemporaryFile(..., delete=True)` block closes the
\* file, and closing unlinks it.
NamedTemporaryFile_exit(f) == [f EXCEPT !.exists = FALSE]

\* --------------------------------------------------------------------- state
VARIABLES
  IS_PROXMOX,   \* module constant read from the environment
  SERVER_MAC,   \* module constant read from the environment
  pc,           \* where each session's evaluation of main() stands
  netOutcome,   \* what the network did to the connection attempt main() is
                \* waiting on or about to branch on, "none" otherwise
  conn,         \* the probe's socket: "none", "open" or "closed"
  up,           \* value is_server_up returned: "unknown", "True" or "False"
  exposed,      \* the actions the evaluation rendered
  creds,        \* the widget values the render function holds while it runs
  pressed,      \* whether the rendered button reported a click
  keyfile,      \* the temporary key file of the evaluation
  extOutcome,   \* what the POST or the ssh process did
  result,       \* value the shutdown strategy returned
  diag,         \* the error() the strategy itself emitted
  wake,         \* what wake_server did
  msg,          \* the outcome main() or the render function reported
  raised        \* the exception that left main(), "none" when it returned

config == <<IS_PROXMOX, SERVER_MAC>>
probe == <<conn, up>>
outcome == <<extOutcome, result, diag>>

vars == <<IS_PROXMOX, SERVER_MAC, pc, netOutcome, conn, up, exposed, creds, pressed,
          keyfile, extOutcome, result, diag, wake, msg, raised>>

NoExt == [http |-> NoHttp, proc |-> NoProc]

Init ==
  /\ IS_PROXMOX \in BOOLEAN
  /\ SERVER_MAC \in MacInputs
  /\ pc = [s \in Sessions |-> "idle"]
  /\ netOutcome = [s \in Sessions |-> "none"]
  /\ conn = [s \in Sessions |-> "none"]
  /\ up = [s \in Sessions |-> "unknown"]
  /\ exposed = [s \in Sessions |-> {}]
  /\ creds = [s \in Sessions |-> NoCreds]
  /\ pressed = [s \in Sessions |-> FALSE]
  /\ keyfile = [s \in Sessions |-> NoFile]
  /\ extOutcome = [s \in Sessions |-> NoExt]
  /\ result = [s \in Sessions |-> "none"]
  /\ diag = [s \in Sessions |-> NoDiag]
  /\ wake = [s \in Sessions |-> NoWake]
  /\ msg = [s \in Sessions |-> "none"]
  /\ raised = [s \in Sessions |-> "none"]

\* An exception leaves main(): the evaluation ends without a reported
\* outcome, and the locals of the render function are gone.
Crash(s, exc) ==
  /\ pc' = [pc EXCEPT ![s] = "crashed"]
  /\ raised' = [raised EXCEPT ![s] = exc]
  /\ creds' = [creds EXCEPT ![s] = NoCreds]

\* main() returns; the locals of the render function are gone.
Return(s) ==
  /\ pc' = [pc EXCEPT ![s] = "done"]
  /\ creds' = [creds EXCEPT ![s] = NoCreds]
  /\ UNCHANGED raised

\* ------------------------------------------------------------------- main()
\* A page load or widget interaction starts an evaluation of main(): the
\* header is rendered and is_server_up attempts its connection.
Rerun(s) ==
  /\ pc[s] \in {"idle", "done", "crashed"}
  /\ \E o \in ProbeOutcomes :
       /\ netOutcome' = [netOutcome EXCEPT ![s] = o]
       /\ conn' = [conn EXCEPT ![s] = IF o = "established" THEN "open" ELSE "none"]
  /\ pc' = [pc EXCEPT ![s] = "probing"]
  /\ up' = [up EXCEPT ![s] = "unknown"]
  /\ exposed' = [exposed EXCEPT ![s] = {}]
  /\ creds' = [creds EXCEPT ![s] = NoCreds]
  /\ pressed' = [pressed EXCEPT ![s] = FALSE]
  /\ keyfile' = [keyfile EXCEPT ![s] = NoFile]
  /\ extOutcome' = [extOutcome EXCEPT ![s] = NoExt]
  /\ result' = [result EXCEPT ![s] = "none"]
  /\ diag' = [diag EXCEPT ![s] = NoDiag]
  /\ wake' = [wake EXCEPT ![s] = NoWake]
  /\ msg' = [msg EXCEPT ![s] = "none"]
  /\ raised' = [raised EXCEPT ![s] = "none"]
  /\ UNCHANGED config

\* is_server_up leaves its with block (closing the socket) or its except
\* clause and returns to main().
ProbeReturn(s) ==
  /\ pc[s] = "probing"
  /\ LET r == is_server_up(netOutcome[s]) IN
       /\ conn' = [conn EXCEPT ![s] = IF @ = "open" THEN "closed" ELSE @]
       /\ IF r.escaped # "none"
            THEN Crash(s, r.escaped) /\ UNCHANGED up
            ELSE /\ pc' = [pc EXCEPT ![s] = "probed"]
                 /\ up' = [up EXCEPT ![s] = r.ret]
                 /\ UNCHANGED <<raised, creds>>
  /\ UNCHANGED <<config, netOutcome, exposed, pressed, keyfile, outcome, wake, msg>>

\* The else branch of main(): the Wake button, and wake_server under the
\* try/except of main() when it was clicked.
RenderWake(s) ==
  /\ pc[s] = "probed" /\ main_branch(up[s], IS_PROXMOX) = "wake"
  /\ netOutcome' = [netOutcome EXCEPT ![s] = "none"]
  /\ exposed' = [exposed EXCEPT ![s] = {"wake"}]
  /\ \E click \in BOOLEAN, sendOk \in BOOLEAN :
       /\ pressed' = [pressed EXCEPT ![s] = click]
       /\ IF click
            THEN LET r == wake_server(SERVER_MAC, sendOk) IN
                 /\ wake' = [wake EXCEPT ![s] = r]
                 /\ IF r.exc = "none"
                      THEN /\ msg' = [msg EXCEPT ![s] = "Wake-on-LAN signal sent successfully!"]
                           /\ Return(s)
                      ELSE IF Caught(r.exc, {"Exception"})
                        THEN /\ msg' = [msg EXCEPT ![s] = "Failed to send WoL packet"]
                             /\ Return(s)
                        ELSE /\ Crash(s, r.exc)
                             /\ UNCHANGED msg
            ELSE /\ Return(s)
                 /\ UNCHANGED <<wake, msg>>
  /\ UNCHANGED <<config, probe, keyfile, outcome>>

\* render_proxmox_shutdown_ui up to the call of the strategy: the three text
\* inputs, the guarded button, and the POST leaving for the server.
RenderProxmox(s) ==
  /\ pc[s] = "probed" /\ main_branch(up[s], IS_PROXMOX) = "api"
  /\ netOutcome' = [netOutcome EXCEPT ![s] = "none"]
  /\ exposed' = [exposed EXCEPT ![s] = {"api"}]
  /\ \E n \in TextInputs, i \in TextInputs, k \in TextInputs, click \in BOOLEAN :
       /\ pressed' = [pressed EXCEPT ![s] = all(<<n, i, k>>) /\ click]
       /\ IF all(<<n, i, k>>) /\ click
            THEN /\ creds' = [creds EXCEPT ![s] = [NoCreds EXCEPT !.node_name = n,
                                    !.token_id = i, !.token_secret = k]]
                 /\ pc' = [pc EXCEPT ![s] = "api_call"]
                 /\ UNCHANGED raised
            ELSE Return(s)
  /\ UNCHANGED <<config, probe, keyfile, outcome, wake, msg>>

\* requests.post returns or raises; shutdown_proxmox_with_token returns and
\* render_proxmox_shutdown_ui reports.
ApiReturn(s) ==
  /\ pc[s] = "api_call"
  /\ \E o \in HttpOutcomes :
       LET r == shutdown_proxmox_with_token(o) IN
       /\ extOutcome' = [extOutcome EXCEPT ![s].http = o]
       /\ result' = [result EXCEPT ![s] = r.ret]
       /\ diag' = [diag EXCEPT ![s] = r.diag]
       /\ IF r.escaped # "none"
            THEN Crash(s, r.escaped) /\ UNCHANGED msg
            ELSE /\ msg' = [msg EXCEPT ![s] =
                              IF r.ret = "True" THEN "Shutdown command sent successfully!"
                              ELSE "Shutdown request failed. Check credentials and try again."]
                 /\ Return(s)
  /\ UNCHANGED <<config, netOutcome, probe, exposed, pressed, keyfile, wake>>

\* render_generic_shutdown_ui up to the creation of the temporary file: the
\* uploader, the guarded button and NamedTemporaryFile.
RenderGeneric(s) ==
  /\ pc[s] = "probed" /\ main_branch(up[s], IS_PROXMOX) = "ssh"
  /\ netOutcome' = [netOutcome EXCEPT ![s] = "none"]
  /\ exposed' = [exposed EXCEPT ![s] = {"ssh"}]
  /\ \E f \in KeyUploads, click \in BOOLEAN :
       /\ pressed' = [pressed EXCEPT ![s] = Truthy(f) /\ click]
       /\ IF Truthy(f) /\ click
            THEN /\ creds' = [creds EXCEPT ![s] = [NoCreds EXCEPT !.ssh_key_file = f]]
                 /\ keyfile' = [keyfile EXCEPT ![s] =
                                  [NoFile EXCEPT !.created = TRUE, !.exists = TRUE]]
                 /\ pc' = [pc EXCEPT ![s] = "key_open"]
                 /\ UNCHANGED raised
            ELSE /\ Return(s)
                 /\ UNCHANGED keyfile
  /\ UNCHANGED <<config, probe, outcome, wake, msg>>

\* Lines 94-95: decode the upload, write and flush it.
KeyWrite(s) ==
  /\ pc[s] = "key_open"
  /\ \E stored \in BOOLEAN :
       IF creds[s].ssh_key_file = "not_utf8" \/ ~stored
         THEN /\ keyfile' = [keyfile EXCEPT ![s] = NamedTemporaryFile_exit(@)]
              /\ Crash(s, IF creds[s].ssh_key_file = "not_utf8"
                            THEN "UnicodeDecodeError" ELSE "OSError")
         ELSE /\ keyfile' = [keyfile EXCEPT ![s].written = TRUE]
              /\ pc' = [pc EXCEPT ![s] = "key_written"]
              /\ UNCHANGED <<raised, creds>>
  /\ UNCHANGED <<config, netOutcome, probe, exposed, pressed, outcome, wake, msg>>

\* Line 96: chmod 0o600, then the call of shutdown_linux_with_ssh, which
\* starts the ssh process on the file.
KeyChmod(s) ==
  /\ pc[s] = "key_written"
  /\ \E changed \in BOOLEAN :
       IF changed
         THEN /\ keyfile' = [keyfile EXCEPT ![s].chmod0600 = TRUE, ![s].uses = @ + 1]
              /\ pc' = [pc EXCEPT ![s] = "ssh_run"]
              /\ UNCHANGED <<raised, creds>>
         ELSE /\ keyfile' = [keyfile EXCEPT ![s] = NamedTemporaryFile_exit(@)]
              /\ Crash(s, "PermissionError")
  /\ UNCHANGED <<config, netOutcome, probe, exposed, pressed, outcome, wake, msg>>

\* subprocess.run returns or raises; shutdown_linux_with_ssh returns,
\* render_generic_shutdown_ui reports and leaves the with block.
SshReturn(s) ==
  /\ pc[s] = "ssh_run"
  /\ \E o \in ProcOutcomes :
       LET r == shutdown_linux_with_ssh(o) IN
       /\ extOutcome' = [extOutcome EXCEPT ![s].proc = o]
       /\ result' = [result EXCEPT ![s] = r.ret]
       /\ diag' = [diag EXCEPT ![s] = r.diag]
       /\ keyfile' = [keyfile EXCEPT ![s] = NamedTemporaryFile_exit(@)]
       /\ IF r.escaped # "none"
            THEN Crash(s, r.escaped) /\ UNCHANGED msg
            ELSE /\ msg' = [msg EXCEPT ![s] =
                              IF r.ret = "True" THEN "Shutdown command sent successfully!"
                              ELSE "Shutdown failed. Verify that the SSH setup is correctly configured."]
                 /\ Return(s)
  /\ UNCHANGED <<config, netOutcome, probe, exposed, pressed, wake>>

Next ==
  \E s \in Sessions :
    \/ Rerun(s)
    \/ ProbeReturn(s)
    \/ RenderWake(s)
    \/ RenderProxmox(s)
    \/ ApiReturn(s)
    \/ RenderGeneric(s)
    \/ KeyWrite(s)
    \/ KeyChmod(s)
    \/ SshReturn(s)

Spec == Init /\ [][Next]_vars

\* ------------------------------------------------------------------ claims
Rendered(s) == pc[s] \in {"api_call", "key_open", "key_written", "ssh_run", "done"}
InApi(s) == pc[s] = "api_call"
InSsh(s) == pc[s] \in {"key_open", "key_written", "ssh_run"}
SshInvoked(s) == extOutcome[s].proc # NoProc
ApiInvoked(s) == extOutcome[s].http # NoHttp

\* C1: every evaluation probes first and then exposes exactly one action:
\* Wake alone when the probe returned false (and then no shutdown strategy
\* runs), otherwise the one shutdown strategy IS_PROXMOX selects; IS_PROXMOX,
\* and with it the selection, never changes in the process.
C1_Exposure ==
  \A s \in Sessions :
    /\ exposed[s] # {} => up[s] # "unknown"
    /\ Rendered(s) => Cardinality(exposed[s]) = 1
    /\ up[s] = "False" =>
         /\ exposed[s] \subseteq {"wake"}
         /\ ~InApi(s) /\ ~InSsh(s) /\ ~ApiInvoked(s) /\ ~SshInvoked(s)
         /\ keyfile[s] = NoFile
    /\ up[s] = "True" /\ exposed[s] # {} =>
         exposed[s] = {IF IS_PROXMOX THEN "api" ELSE "ssh"}
    /\ (InApi(s) \/ ApiInvoked(s)) => IS_PROXMOX /\ up[s] = "True"
    /\ (InSsh(s) \/ SshInvoked(s) \/ keyfile[s] # NoFile) => ~IS_PROXMOX /\ up[s] = "True"
    /\ wake[s] # NoWake => up[s] = "False"

C1_GateSelection == [](C1_Exposure) /\ [][IS_PROXMOX' = IS_PROXMOX]_vars

C1_Witness ==
  \E s, t \in Sessions :
    /\ up[s] = "False" /\ exposed[s] = {"wake"} /\ wake[s] # NoWake
    /\ up[t] = "True" /\ Cardinality(exposed[t]) = 1 /\ (InApi(t) \/ InSsh(t))

\* C2: is_server_up returns True exactly when the connection was established
\* and False for refusal, timeout, unreachable host, missing route and DNS
\* failure; none of them leaves the function as an exception, and the socket
\* it opened is closed when it returns.
C2_ProbeBoolean ==
  \A s \in Sessions :
    /\ pc[s] = "probed" =>
         /\ up[s] \in {"True", "False"}
         /\ up[s] = "True" <=> netOutcome[s] = "established"
    /\ ~(pc[s] = "crashed" /\ netOutcome[s] # "none")
    /\ pc[s] # "probing" => conn[s] # "open"
    /\ up[s] = "True" => conn[s] = "closed"

C2_Witness ==
  \E s, t \in Sessions :
    /\ pc[s] = "probed" /\ up[s] = "True" /\ conn[s] = "closed"
    /\ pc[t] = "probed" /\ up[t] = "False" /\ netOutcome[t] = "dns_failure"

\* C3: shutdown_proxmox_with_token returns True exactly for status 200; any
\* other status and any transport exception give False with a diagnostic
\* (status and body, or the exception) and nothing escapes; the caller
\* reports "Shutdown command sent successfully!" only for True.
C3_ApiResult ==
  \A s \in Sessions :
    ApiInvoked(s) =>
      LET o == extOutcome[s].http IN
      /\ result[s] \in {"True", "False"}
      /\ result[s] = "True" <=> (o.fault = "none" /\ o.status = 200)
      /\ raised[s] = "none" /\ pc[s] = "done"
      /\ result[s] = "False" /\ o.fault = "none" =>
           diag[s] = [text |-> "Shutdown failed", code |-> o.status, info |-> "response.text"]
      /\ o.fault # "none" =>
           diag[s] = [text |-> "Error contacting Proxmox API", code |-> -1,
                      info |-> PostRaises[o.fault]]
      /\ msg[s] = "Shutdown command sent successfully!" <=> result[s] = "True"

C3_Witness ==
  \E s, t \in Sessions :
    /\ ApiInvoked(s) /\ extOutcome[s].http.status = 500 /\ result[s] = "False"
    /\ ApiInvoked(t) /\ extOutcome[t].http.status = 200
    /\ msg[t] = "Shutdown command sent successfully!"

\* C4: shutdown_linux_with_ssh returns True exactly when the ssh process ran
\* and exited 0; a non-zero exit, a missing client, the timeout and any other
\* execution error give False, and none leaves the function as an exception.
C4_SshResult ==
  \A s \in Sessions :
    SshInvoked(s) =>
      LET o == extOutcome[s].proc IN
      /\ result[s] \in {"True", "False"}
      /\ result[s] = "True" <=> (o.fault = "none" /\ o.returncode = 0)
      /\ raised[s] = "none" /\ pc[s] = "done"

C4_Witness ==
  \E s, t \in Sessions :
    /\ SshInvoked(s) /\ extOutcome[s].proc.fault = "timeout" /\ result[s] = "False"
    /\ SshInvoked(t) /\ extOutcome[t].proc.returncode = 0 /\ result[t] = "True"

\* C5: each failure class of shutdown_linux_with_ssh has its own diagnostic:
\* exit code and stderr for a non-zero exit, client-not-found for a missing
\* client, "Connection timed out." for the timeout, and the generic text only
\* for the remaining errors.
C5_DistinctDiagnostics ==
  \A s \in Sessions :
    SshInvoked(s) =>
      LET o == extOutcome[s].proc IN
      /\ o.fault = "none" /\ o.returncode # 0 =>
           diag[s].text = "SSH error" /\ diag[s].code = o.returncode
      /\ o.fault = "missing_client" => diag[s].text = "SSH command not found"
      /\ o.fault = "timeout" => diag[s].text = "Connection timed out."
      /\ o.fault \in {"not_executable"} => diag[s].text = "Unexpected error"

\* C6: the temporary key file has owner-only permission applied and its
\* contents written before ssh runs on it, serves one ssh invocation, and is
\* gone from disk once the trigger has finished, whether the strategy
\* succeeded, failed, or an exception was raised while writing the key,
\* changing its permission or running the strategy.
C6_KeyFileLifecycle ==
  \A s \in Sessions :
    /\ pc[s] = "ssh_run" =>
         keyfile[s].exists /\ keyfile[s].written /\ keyfile[s].chmod0600
    /\ keyfile[s].uses > 0 => keyfile[s].chmod0600 /\ keyfile[s].written
    /\ keyfile[s].uses <= 1
    /\ SshInvoked(s) => keyfile[s].uses = 1
    /\ pc[s] \in {"idle", "done", "crashed"} => ~keyfile[s].exists

C6_Witness ==
  \E s, t \in Sessions :
    /\ pc[s] = "done" /\ SshInvoked(s) /\ result[s] = "False"
    /\ keyfile[s].uses = 1 /\ ~keyfile[s].exists
    /\ pc[t] = "crashed" /\ raised[t] = "UnicodeDecodeError"
    /\ keyfile[t].created /\ ~keyfile[t].exists

\* C7: no evaluation of main() ends in an exception: every failure of probe,
\* wake, API shutdown and key-based shutdown becomes a reported outcome.
C7_NothingEscapesMain ==
  \A s \in Sessions : pc[s] # "crashed" /\ raised[s] = "none"

C9_OneShutdownInFlight ==
  Cardinality({s \in Sessions : pc[s] \in {"api_call", "ssh_run"}}) <= 1

====
